---- MODULE Spec2Model ----
(***************************************************************************)
(* neste: a registry of compiled text templates (Manager) and the          *)
(* templates it hands out (Template), with modification-time based         *)
(* reloading of file-backed templates.                                     *)
(*                                                                         *)
(* Template source text and rendered output are sequences of one-character *)
(* strings.  The template compiler (Go's "template" package) and the       *)
(* filesystem are external collaborators; both are modelled by what the    *)
(* calls made from this repository rely on.                                *)
(***************************************************************************)
EXTENDS Integers, Sequences, FiniteSets, TLC

(***************************************************************************)
(* Bounds                                                                  *)
(***************************************************************************)
\* Largest modification time the filesystem hands out.
MaxMtime == 1
\* Number of Template objects that can be allocated in one run.
MaxObjs == 2

(***************************************************************************)
(* Inputs                                                                  *)
(***************************************************************************)
\* Relative file names / identifiers used as keys.
Files == {"reloading.neste"}
Ids == {"reloading.neste"}

\* Template sources (the texts written to files or passed to Add).
\* SrcStart prints the data under the delimiters { }, SrcMod prints the field
\* f of the data under [ ], SrcBad has an unclosed action under { }.
SrcStart == <<"s", "{", "@", "}">>
SrcMod == <<"m", "[", "f", "]">>
SrcBad == <<"b", "{">>
Sources == {SrcStart, SrcMod, SrcBad}

\* Delimiter pairs SetDelims is called with.
DelimPairs == {<<<<"{">>, <<"}">>>>, <<<<"[">>, <<"]">>>>}

\* Data passed to Execute/Render: a plain value, which has no fields.
Data == {"d"}

(***************************************************************************)
(* External collaborator: the template compiler                            *)
(***************************************************************************)
\* A nil *template.Template, and a compiled one: its elements and the
\* delimiters SetDelims gave it.
NilCache == [nil |-> TRUE, elems |-> <<>>, ldelim |-> <<>>, rdelim |-> <<>>]
Tt(elems, l, r) == [nil |-> FALSE, elems |-> elems, ldelim |-> l, rdelim |-> r]

\* Does the delimiter d (a non-empty text) occur in s at position i?
HasAt(s, d, i) ==
    /\ i + Len(d) - 1 <= Len(s)
    /\ SubSeq(s, i, i + Len(d) - 1) = d

\* Position of the first occurrence of d in s at or after position i, 0 if none.
RECURSIVE FindFrom(_, _, _)
FindFrom(s, d, i) ==
    IF i > Len(s) THEN 0
    ELSE IF HasAt(s, d, i) THEN i
    ELSE FindFrom(s, d, i + 1)

\* Parse the text from position i on: literal text outside the delimiters,
\* one action between a left and the next right delimiter.  An unclosed or
\* unknown action is a parse error.
RECURSIVE ParseFrom(_, _, _, _)
ParseFrom(s, l, r, i) ==
    IF i > Len(s) THEN [err |-> FALSE, elems |-> <<>>]
    ELSE IF HasAt(s, l, i)
         THEN LET j == FindFrom(s, r, i + Len(l))
              IN IF j = 0 THEN [err |-> TRUE, elems |-> <<>>]
                 ELSE LET body == SubSeq(s, i + Len(l), j - 1)
                          rest == ParseFrom(s, l, r, j + Len(r))
                      IN IF rest.err THEN rest
                         ELSE IF body = <<"@">>
                              THEN [err |-> FALSE,
                                    elems |-> <<[kind |-> "cursor", val |-> "@"]>> \o rest.elems]
                         ELSE IF body = <<"f">>
                              THEN [err |-> FALSE,
                                    elems |-> <<[kind |-> "field", val |-> "f"]>> \o rest.elems]
                         ELSE [err |-> TRUE, elems |-> <<>>]
         ELSE LET rest == ParseFrom(s, l, r, i + 1)
              IN IF rest.err THEN rest
                 ELSE [err |-> FALSE,
                       elems |-> <<[kind |-> "lit", val |-> s[i]]>> \o rest.elems]

\* tt.SetDelims(l, r); tt.Parse(s)
Parse(s, l, r) == ParseFrom(s, l, r, 1)

\* tt.Execute(wr, data) on a compiled template: the text written to wr and
\* whether execution failed.  A literal writes itself, the cursor writes the
\* data, a field lookup on plain data fails.  Output written before a failure
\* stays written.
RECURSIVE ExecElems(_, _)
ExecElems(elems, data) ==
    IF elems = <<>> THEN [err |-> FALSE, out |-> <<>>]
    ELSE LET e == Head(elems)
         IN IF e.kind = "field"
            THEN [err |-> TRUE, out |-> <<>>]
            ELSE LET rest == ExecElems(Tail(elems), data)
                     txt == IF e.kind = "lit" THEN e.val ELSE data
                 IN [err |-> rest.err, out |-> <<txt>> \o rest.out]

(***************************************************************************)
(* External collaborator: the filesystem                                   *)
(***************************************************************************)
baseDir == "templates"

\* path.Join(baseDir, filename) for the clean relative names used here.
PathJoin(dir, name) == dir \o "/" \o name

Paths == {PathJoin(baseDir, f) : f \in Files}

NoFile == [exists |-> FALSE, mtime |-> 0, content |-> <<>>]

(***************************************************************************)
(* Formatter tables                                                        *)
(***************************************************************************)
\* A template.FormatterMap: nil, or a table from formatter names to
\* formatters (named by the function that implements them).
NilFmap == [nil |-> TRUE, tab |-> [x \in {} |-> ""]]
Fmap(tab) == [nil |-> FALSE, tab |-> tab]

\* var builtins
builtins ==
    Fmap([k \in {"e", "addSlashes", "capFirst"} |->
             CASE k = "e" -> "template.HTMLFormatter"
               [] k = "addSlashes" -> "AddSlashesFormatter"
               [] k = "capFirst" -> "CapFirstFormatter"])

\* The same table under the name the current New reads it by.
builtinFormatters == builtins

\* for k, v := range builtinFormatters { if _, present := fmap[k]; !present
\* { fmap[k] = v } }, over the keys not visited yet.
RECURSIVE MergeBuiltins(_, _, _)
MergeBuiltins(tab, from, keys) ==
    IF keys = {} THEN tab
    ELSE LET k == CHOOSE x \in keys : TRUE
         IN MergeBuiltins(IF k \in DOMAIN tab THEN tab
                          ELSE [x \in DOMAIN tab \cup {k} |->
                                   IF x = k THEN from[k] ELSE tab[x]],
                          from, keys \ {k})

\* New, where every built-in is stored, also over a user's entry.
NewOn_BuiltinsWin(dir, fmap) ==
    [baseDir |-> dir,
     fmap |-> IF ~fmap.nil
              THEN Fmap([x \in DOMAIN fmap.tab \cup DOMAIN builtinFormatters.tab |->
                            IF x \in DOMAIN builtinFormatters.tab
                            THEN builtinFormatters.tab[x] ELSE fmap.tab[x]])
              ELSE builtinFormatters]

\* New: the baseDir and fmap fields of the Manager it returns.
NewOn(dir, fmap) ==
    [baseDir |-> dir,
     fmap |-> IF ~fmap.nil
              THEN Fmap(MergeBuiltins(fmap.tab, builtinFormatters.tab,
                                      DOMAIN builtinFormatters.tab))
              ELSE builtinFormatters]

\* New of the earlier revisions: a nil fmap stays nil.
NewHistOn(dir, fmap) ==
    [baseDir |-> dir,
     fmap |-> IF ~fmap.nil
              THEN Fmap(MergeBuiltins(fmap.tab, builtins.tab, DOMAIN builtins.tab))
              ELSE fmap]

(***************************************************************************)
(* State                                                                   *)
(***************************************************************************)
VARIABLES
    fs,         \* path -> [exists, mtime, content]
    heap,       \* the Template objects allocated so far, by address 1..Len(heap)
    tStrings,   \* Manager.tStrings: identifier -> address
    tFiles,     \* Manager.tFiles: filename -> address
    ldelim,     \* Manager.ldelim
    rdelim,     \* Manager.rdelim
    reloading,  \* Manager.reloading
    mgr,        \* Manager.baseDir and Manager.fmap, as New set them
    pc,         \* the call in progress, when a call is taken step by step
    ret         \* the last call: its name, argument, template, outcome and output

vars == <<fs, heap, tStrings, tFiles, ldelim, rdelim, reloading, mgr, pc, ret>>

\* make(map[string]*Template)
EmptyMap == [x \in {} |-> 0]

\* The address of the Manager New returned: the m of Template.m.
thisManager == "m"

NilFi == [present |-> FALSE, filename |-> "", mtime |-> 0, mustParse |-> FALSE]

\* A call's record: outcome is "ok", "error" (a non-nil os.Error was returned)
\* or "panic" (the call did not return); Clear, Remove and RemoveFile return
\* "true" or "false".  t is the Template the call was made on or returned (0
\* for nil), out the text written or returned, rc whether the call reparsed
\* the template's file, was the left delimiter of the compiled template a
\* Reload replaced.
RetRc(op, key, t, outcome, out, rc) ==
    [op |-> op, key |-> key, t |-> t, outcome |-> outcome, out |-> out, rc |-> rc,
     was |-> <<>>]

Ret(op, key, t, outcome, out) == RetRc(op, key, t, outcome, out, FALSE)

Idle == [step |-> "idle", op |-> "", t |-> 0, filename |-> "", mustParse |-> FALSE,
         tt |-> NilCache]

\* A panic ends the program.
Alive == ret.outcome # "panic"

\* A new call starts when the previous one has returned.
Running == Alive /\ pc.step = "idle"

\* Manager.New(baseDir, nil)
Init ==
    /\ fs \in [Paths -> {NoFile} \cup {[exists |-> TRUE, mtime |-> 0, content |-> c] : c \in Sources}]
    /\ heap = <<>>
    /\ tStrings = EmptyMap
    /\ tFiles = EmptyMap
    /\ ldelim = <<"{">>
    /\ rdelim = <<"}">>
    /\ reloading = FALSE
    /\ mgr = NewOn(baseDir, NilFmap)
    /\ pc = Idle
    /\ ret = Ret("New", "", 0, "ok", <<>>)

(***************************************************************************)
(* Go maps                                                                 *)
(***************************************************************************)
MapPut(m, k, v) == [x \in (DOMAIN m) \cup {k} |-> IF x = k THEN v ELSE m[x]]
MapDelete(m, k) == [x \in (DOMAIN m) \ {k} |-> m[x]]
MapGet(m, k) == IF k \in DOMAIN m THEN m[k] ELSE 0

(***************************************************************************)
(* Filesystem activity of other processes                                  *)
(***************************************************************************)
\* ioutil.WriteFile followed by os.Chtimes: any content, any modification time.
WriteFile(p, c, mt) ==
    /\ Alive
    /\ fs' = [fs EXCEPT ![p] = [exists |-> TRUE, mtime |-> mt, content |-> c]]
    /\ UNCHANGED <<mgr, heap, tStrings, tFiles, ldelim, rdelim, reloading, ret, pc>>

DeleteFile(p) ==
    /\ Alive
    /\ fs[p].exists
    /\ fs' = [fs EXCEPT ![p] = NoFile]
    /\ UNCHANGED <<mgr, heap, tStrings, tFiles, ldelim, rdelim, reloading, ret, pc>>

(***************************************************************************)
(* neste.go                                                                *)
(***************************************************************************)
\* getMtime: os.Lstat's error is dropped and the FileInfo dereferenced, which
\* is a nil dereference when the file does not exist.
getMtime(files, path) ==
    IF files[path].exists
    THEN [panic |-> FALSE, mtime |-> files[path].mtime]
    ELSE [panic |-> TRUE, mtime |-> 0]

(***************************************************************************)
(* Manager                                                                 *)
(***************************************************************************)
\* tt.ParseFile(path): read the file, then parse its contents.
ParseFile(files, path, l, r) ==
    IF files[path].exists
    THEN Parse(files[path].content, l, r)
    ELSE [err |-> TRUE, elems |-> <<>>]

\* parsett that leaves out tt.SetDelims: the file is parsed under { }.
parsett_NoSetDelims(files, path, mustParse, l, r) ==
    LET p == ParseFile(files, path, <<"{">>, <<"}">>)
    IN IF p.err
       THEN IF mustParse
            THEN [outcome |-> "panic", tt |-> NilCache]
            ELSE [outcome |-> "error", tt |-> NilCache]
       ELSE [outcome |-> "ok", tt |-> Tt(p.elems, <<"{">>, <<"}">>)]

\* Manager.parsett: the compiled template, or nil and the error, or a panic
\* when mustParse is set.
parsett(files, path, mustParse, l, r) ==
    LET p == ParseFile(files, path, l, r)
    IN IF p.err
       THEN IF mustParse
            THEN [outcome |-> "panic", tt |-> NilCache]
            ELSE [outcome |-> "error", tt |-> NilCache]
       ELSE [outcome |-> "ok", tt |-> Tt(p.elems, l, r)]

\* add that drops the entry stored under id when the text does not parse.
addOn_DropsEntryOnError(h, ts, tf, s, id, mustParse, l, r) ==
    LET p == Parse(s, l, r)
    IN IF p.err
       THEN [heap |-> h, tStrings |-> MapDelete(ts, id), tFiles |-> tf, t |-> 0,
             outcome |-> IF mustParse THEN "panic" ELSE "error"]
       ELSE [heap |-> Append(h, [m |-> thisManager, cache |-> Tt(p.elems, l, r), fi |-> NilFi]),
             tStrings |-> MapPut(ts, id, Len(h) + 1), tFiles |-> tf, t |-> Len(h) + 1,
             outcome |-> "ok"]

\* Manager.add on the heap h and the maps ts, tf: what it leaves and returns.
addOn(h, ts, tf, s, id, mustParse, l, r) ==
    LET p == Parse(s, l, r)
    IN IF p.err
       THEN [heap |-> h, tStrings |-> ts, tFiles |-> tf, t |-> 0,
             outcome |-> IF mustParse THEN "panic" ELSE "error"]
       ELSE [heap |-> Append(h, [m |-> thisManager, cache |-> Tt(p.elems, l, r), fi |-> NilFi]),
             tStrings |-> MapPut(ts, id, Len(h) + 1), tFiles |-> tf, t |-> Len(h) + 1,
             outcome |-> "ok"]

\* addFile that keeps the entry already stored under filename.
addFileOn_KeepsFirst(h, ts, tf, filename, mustParse, files, l, r) ==
    LET path == PathJoin(baseDir, filename)
        pr == parsett(files, path, mustParse, l, r)
        mt == getMtime(files, path)
    IN IF pr.outcome # "ok"
       THEN [heap |-> h, tStrings |-> ts, tFiles |-> tf, t |-> 0, outcome |-> pr.outcome]
       ELSE IF mt.panic
       THEN [heap |-> h, tStrings |-> ts, tFiles |-> tf, t |-> 0, outcome |-> "panic"]
       ELSE [heap |-> Append(h, [m |-> thisManager, cache |-> pr.tt,
                                 fi |-> [present |-> TRUE, filename |-> filename,
                                         mtime |-> mt.mtime, mustParse |-> mustParse]]),
             tStrings |-> ts,
             tFiles |-> IF filename \in DOMAIN tf THEN tf
                        ELSE MapPut(tf, filename, Len(h) + 1),
             t |-> Len(h) + 1, outcome |-> "ok"]

\* addFile that records the joined path as the Template's filename.
addFileOn_RecordsPath(h, ts, tf, filename, mustParse, files, l, r) ==
    LET path == PathJoin(baseDir, filename)
        pr == parsett(files, path, mustParse, l, r)
        mt == getMtime(files, path)
    IN IF pr.outcome # "ok"
       THEN [heap |-> h, tStrings |-> ts, tFiles |-> tf, t |-> 0, outcome |-> pr.outcome]
       ELSE IF mt.panic
       THEN [heap |-> h, tStrings |-> ts, tFiles |-> tf, t |-> 0, outcome |-> "panic"]
       ELSE [heap |-> Append(h, [m |-> thisManager, cache |-> pr.tt,
                                 fi |-> [present |-> TRUE, filename |-> path,
                                         mtime |-> mt.mtime, mustParse |-> mustParse]]),
             tStrings |-> ts, tFiles |-> MapPut(tf, filename, Len(h) + 1), t |-> Len(h) + 1,
             outcome |-> "ok"]

\* Manager.addFile on the heap h and the maps ts, tf: what it leaves and returns.
addFileOn(h, ts, tf, filename, mustParse, files, l, r) ==
    LET path == PathJoin(baseDir, filename)
        pr == parsett(files, path, mustParse, l, r)
        mt == getMtime(files, path)
    IN IF pr.outcome # "ok"
       THEN [heap |-> h, tStrings |-> ts, tFiles |-> tf, t |-> 0, outcome |-> pr.outcome]
       ELSE IF mt.panic
       THEN [heap |-> h, tStrings |-> ts, tFiles |-> tf, t |-> 0, outcome |-> "panic"]
       ELSE [heap |-> Append(h, [m |-> thisManager, cache |-> pr.tt,
                                 fi |-> [present |-> TRUE, filename |-> filename,
                                         mtime |-> mt.mtime, mustParse |-> mustParse]]),
             tStrings |-> ts, tFiles |-> MapPut(tf, filename, Len(h) + 1), t |-> Len(h) + 1,
             outcome |-> "ok"]

add(s, id, mustParse, op) ==
    /\ Running
    /\ LET a == addOn(heap, tStrings, tFiles, s, id, mustParse, ldelim, rdelim)
       IN /\ Len(a.heap) <= MaxObjs
          /\ heap' = a.heap
          /\ tStrings' = a.tStrings
          /\ tFiles' = a.tFiles
          /\ ret' = Ret(op, id, a.t, a.outcome, <<>>)
    /\ UNCHANGED <<mgr, fs, ldelim, rdelim, reloading, pc>>

addFile(filename, mustParse, op) ==
    /\ Running
    /\ LET a == addFileOn(heap, tStrings, tFiles, filename, mustParse, fs, ldelim, rdelim)
       IN /\ Len(a.heap) <= MaxObjs
          /\ heap' = a.heap
          /\ tStrings' = a.tStrings
          /\ tFiles' = a.tFiles
          /\ ret' = Ret(op, filename, a.t, a.outcome, <<>>)
    /\ UNCHANGED <<mgr, fs, ldelim, rdelim, reloading, pc>>

Add(s, id) == add(s, id, FALSE, "Add")
MustAdd(s, id) == add(s, id, TRUE, "MustAdd")
AddFile(filename) == addFile(filename, FALSE, "AddFile")
MustAddFile(filename) == addFile(filename, TRUE, "MustAddFile")

\* Clear that counts the string-backed templates only.
Clear_CountsStringsOnly ==
    /\ Running
    /\ tStrings' = EmptyMap
    /\ tFiles' = EmptyMap
    /\ ret' = Ret("Clear", "", 0,
                  IF Cardinality(DOMAIN tStrings) > 0 THEN "true" ELSE "false", <<>>)
    /\ UNCHANGED <<mgr, fs, heap, ldelim, rdelim, reloading, pc>>

\* Manager.Clear
Clear ==
    /\ Running
    /\ tStrings' = EmptyMap
    /\ tFiles' = EmptyMap
    /\ ret' = Ret("Clear", "", 0,
                  IF Cardinality(DOMAIN tStrings) + Cardinality(DOMAIN tFiles) > 0
                  THEN "true" ELSE "false", <<>>)
    /\ UNCHANGED <<mgr, fs, heap, ldelim, rdelim, reloading, pc>>

\* Manager.Get
Get(id) ==
    /\ Running
    /\ ret' = Ret("Get", id, MapGet(tStrings, id), "ok", <<>>)
    /\ UNCHANGED <<mgr, fs, heap, tStrings, tFiles, ldelim, rdelim, reloading, pc>>

\* GetFile that reparses the file of the Template it returns when reloading
\* is on.
GetFile_Reparses(filename) ==
    /\ Running
    /\ ret' = Ret("GetFile", filename, MapGet(tFiles, filename), "ok", <<>>)
    /\ LET pr == parsett(fs, PathJoin(baseDir, filename), FALSE, ldelim, rdelim)
       IN heap' = IF reloading /\ filename \in DOMAIN tFiles /\ pr.outcome = "ok"
                  THEN [heap EXCEPT ![tFiles[filename]].cache = pr.tt]
                  ELSE heap
    /\ UNCHANGED <<mgr, fs, tStrings, tFiles, ldelim, rdelim, reloading, pc>>

\* Manager.GetFile
GetFile(filename) ==
    /\ Running
    /\ ret' = Ret("GetFile", filename, MapGet(tFiles, filename), "ok", <<>>)
    /\ UNCHANGED <<mgr, fs, heap, tStrings, tFiles, ldelim, rdelim, reloading, pc>>

\* Remove that looks the identifier up after deleting it.
Remove_LooksUpAfterDelete(id) ==
    /\ Running
    /\ tStrings' = MapDelete(tStrings, id)
    /\ ret' = Ret("Remove", id, 0,
                  IF id \in DOMAIN MapDelete(tStrings, id) THEN "true" ELSE "false", <<>>)
    /\ UNCHANGED <<mgr, fs, heap, tFiles, ldelim, rdelim, reloading, pc>>

\* Remove that deletes the key from both maps.
Remove_BothMaps(id) ==
    /\ Running
    /\ tStrings' = MapDelete(tStrings, id)
    /\ tFiles' = MapDelete(tFiles, id)
    /\ ret' = Ret("Remove", id, 0, IF id \in DOMAIN tStrings THEN "true" ELSE "false",
                  <<>>)
    /\ UNCHANGED <<mgr, fs, heap, ldelim, rdelim, reloading, pc>>

\* Manager.Remove
Remove(id) ==
    /\ Running
    /\ tStrings' = MapDelete(tStrings, id)
    /\ ret' = Ret("Remove", id, 0, IF id \in DOMAIN tStrings THEN "true" ELSE "false",
                  <<>>)
    /\ UNCHANGED <<mgr, fs, heap, tFiles, ldelim, rdelim, reloading, pc>>

\* RemoveFile that deletes the entry under the joined path.
RemoveFile_JoinedKey(filename) ==
    /\ Running
    /\ tFiles' = MapDelete(tFiles, PathJoin(baseDir, filename))
    /\ ret' = Ret("RemoveFile", filename, 0,
                  IF filename \in DOMAIN tFiles THEN "true" ELSE "false", <<>>)
    /\ UNCHANGED <<mgr, fs, heap, tStrings, ldelim, rdelim, reloading, pc>>

\* Manager.RemoveFile
RemoveFile(filename) ==
    /\ Running
    /\ tFiles' = MapDelete(tFiles, filename)
    /\ ret' = Ret("RemoveFile", filename, 0,
                  IF filename \in DOMAIN tFiles THEN "true" ELSE "false", <<>>)
    /\ UNCHANGED <<mgr, fs, heap, tStrings, ldelim, rdelim, reloading, pc>>

\* Manager.SetReloading
SetReloading(b) ==
    /\ Running
    /\ reloading' = b
    /\ ret' = Ret("SetReloading", "", 0, "ok", <<>>)
    /\ UNCHANGED <<mgr, fs, heap, tStrings, tFiles, ldelim, rdelim, pc>>

\* SetDelims that drops what was compiled with the old delimiters.
SetDelims_DropsCompiled(left, right) ==
    /\ Running
    /\ ldelim' = left
    /\ rdelim' = right
    /\ heap' = [t \in DOMAIN heap |->
                   IF left # ldelim THEN [heap[t] EXCEPT !.cache = NilCache] ELSE heap[t]]
    /\ ret' = Ret("SetDelims", "", 0, "ok", <<>>)
    /\ UNCHANGED <<mgr, fs, tStrings, tFiles, reloading, pc>>

\* Manager.SetDelims
SetDelims(left, right) ==
    /\ Running
    /\ ldelim' = left
    /\ rdelim' = right
    /\ ret' = Ret("SetDelims", "", 0, "ok", <<>>)
    /\ UNCHANGED <<mgr, fs, heap, tStrings, tFiles, reloading, pc>>

(***************************************************************************)
(* Construction, and templates that name a formatter                       *)
(***************************************************************************)
\* Tables a caller passes to New: nil, or its own formatter under some names.
UserNames == {"e", "capFirst", "mine"}
UserFmaps ==
    {NilFmap} \cup
    {Fmap([k \in S |-> "UserFormatter"]) : S \in SUBSET UserNames}

\* Formatter names a template text uses after the bar.
FormatterNames == {"e", "addSlashes", "capFirst", "mine", "html", "other"}

\* The formatters the template package gives every template.
TemplateBuiltins == {"html", "str", ""}

\* template.formatter(name): the entry of the template's fmap, else the
\* package's own; Parse rejects a name that has neither.
FormatterKnown(fm, name) ==
    \/ ~fm.nil /\ name \in DOMAIN fm.tab
    \/ name \in TemplateBuiltins

\* The program before it has called New: no Manager yet.
InitNew ==
    /\ fs \in [Paths -> {NoFile}]
    /\ heap = <<>>
    /\ tStrings = EmptyMap
    /\ tFiles = EmptyMap
    /\ ldelim = <<>>
    /\ rdelim = <<>>
    /\ reloading = FALSE
    /\ mgr = [baseDir |-> "", fmap |-> NilFmap]
    /\ pc = [Idle EXCEPT !.step = "start"]
    /\ ret = Ret("", "", 0, "ok", <<>>)

\* The caller's table and the package's table after New(dir, fmap): a Go map
\* is shared by reference, so fmap[k] = v writes to the table the caller
\* holds; a nil table stays nil for the caller; builtinFormatters is only
\* ranged over.
TablesAfterNew(dir, fmap) ==
    [caller |-> IF fmap.nil THEN fmap ELSE NewOn(dir, fmap).fmap,
     builtinFormatters |-> builtinFormatters]

\* New that turns the reloading mode on.
New_ReloadingOn(dir, fmap) ==
    /\ pc.step = "start"
    /\ mgr' = NewOn(dir, fmap)
    /\ tStrings' = EmptyMap
    /\ tFiles' = EmptyMap
    /\ ldelim' = <<"{">>
    /\ rdelim' = <<"}">>
    /\ reloading' = TRUE
    /\ pc' = Idle
    /\ ret' = Ret("New", fmap, 0, "ok", <<>>)
    /\ UNCHANGED <<fs, heap>>

\* New(dir, fmap); the call record keeps the table as it was passed, and the
\* caller's and the package's tables as they are after the call.
New(dir, fmap) ==
    /\ pc.step = "start"
    /\ mgr' = NewOn(dir, fmap)
    /\ tStrings' = EmptyMap
    /\ tFiles' = EmptyMap
    /\ ldelim' = <<"{">>
    /\ rdelim' = <<"}">>
    /\ reloading' = FALSE
    /\ pc' = Idle
    /\ ret' = [Ret("New", fmap, 0, "ok", TablesAfterNew(dir, fmap)) EXCEPT !.was = fmap]
    /\ UNCHANGED <<fs, heap>>

\* New of the earlier revisions.
NewHist(dir, fmap) ==
    /\ pc.step = "start"
    /\ mgr' = NewHistOn(dir, fmap)
    /\ tStrings' = EmptyMap
    /\ tFiles' = EmptyMap
    /\ ldelim' = <<"{">>
    /\ rdelim' = <<"}">>
    /\ reloading' = FALSE
    /\ pc' = Idle
    /\ ret' = Ret("New", fmap, 0, "ok", <<>>)
    /\ UNCHANGED <<fs, heap>>

\* Manager.add of the text {@|name}: template.New(m.fmap), SetDelims, Parse.
addFormatted(name, id, mustParse, op) ==
    /\ Running
    /\ Len(heap) < MaxObjs
    /\ IF FormatterKnown(mgr.fmap, name)
       THEN /\ heap' = Append(heap, [m |-> thisManager, cache |-> Tt(<<[kind |-> "formatted", val |-> name]>>,
                                                 ldelim, rdelim),
                                     fi |-> NilFi])
            /\ tStrings' = MapPut(tStrings, id, Len(heap) + 1)
            /\ ret' = Ret(op, name, Len(heap) + 1, "ok", <<>>)
       ELSE /\ UNCHANGED <<heap, tStrings>>
            /\ ret' = Ret(op, name, 0, IF mustParse THEN "panic" ELSE "error", <<>>)
    /\ UNCHANGED <<mgr, fs, tFiles, ldelim, rdelim, reloading, pc>>

AddFormatted(name, id) == addFormatted(name, id, FALSE, "Add")
MustAddFormatted(name, id) == addFormatted(name, id, TRUE, "MustAdd")

(***************************************************************************)
(* Template                                                                *)
(***************************************************************************)
\* The comparison with >= for >.
Changed_OrEqual(curMtime, oldMtime) == curMtime >= oldMtime

\* if curMtime > oldMtime
Changed(curMtime, oldMtime) == curMtime > oldMtime

\* Template.Reload on the object at address t of heap h: the heap it leaves,
\* how the call ends and whether it reparsed the file.  t.fi is dereferenced
\* without a nil check; the result of parsett is assigned to t.cache before
\* the error is looked at.
ReloadOn(h, t, files, l, r) ==
    LET path == PathJoin(baseDir, h[t].fi.filename)
        oldMtime == h[t].fi.mtime
        Parsed(pr, newMtime) ==
            IF pr.outcome = "panic"
            THEN [heap |-> h, outcome |-> "panic", rc |-> TRUE]
            ELSE IF pr.outcome = "error"
            THEN [heap |-> [h EXCEPT ![t].cache = pr.tt],
                  outcome |-> "error", rc |-> TRUE]
            ELSE IF newMtime.panic
            THEN [heap |-> [h EXCEPT ![t].cache = pr.tt],
                  outcome |-> "panic", rc |-> TRUE]
            ELSE [heap |-> [h EXCEPT ![t].cache = pr.tt,
                                     ![t].fi.mtime = newMtime.mtime],
                  outcome |-> "ok", rc |-> TRUE]
        Statted(curMtime) ==
            IF curMtime.panic
            THEN [heap |-> h, outcome |-> "panic", rc |-> FALSE]
            ELSE IF Changed(curMtime.mtime, oldMtime)
            THEN Parsed(parsett(files, path, h[t].fi.mustParse, l, r),
                        getMtime(files, path))
            ELSE [heap |-> h, outcome |-> "ok", rc |-> FALSE]
    IN IF ~h[t].fi.present
       THEN [heap |-> h, outcome |-> "panic", rc |-> FALSE]
       ELSE Statted(getMtime(files, path))

\* Should Execute call Reload first?  Without the test of the reloading mode.
WantsReload_IgnoresMode(present, rl) == present

\* Should Execute call Reload first?  Never.
WantsReload_Never(present, rl) == FALSE

\* if t.fi != nil && t.m.reloading
WantsReload(present, rl) == present /\ rl

\* Template.Execute: the heap it leaves, how the call ends and what was
\* written to wr.  Executing a nil cache is a nil dereference.
ExecuteOn(h, t, data, files, l, r, rl) ==
    LET Executed(re, tt, ex) ==
            IF tt.nil
            THEN [heap |-> re.heap, outcome |-> "panic", out |-> <<>>, rc |-> re.rc]
            ELSE [heap |-> re.heap, outcome |-> IF ex.err THEN "error" ELSE "ok",
                  out |-> ex.out, rc |-> re.rc]
        Reloaded(re) ==
            IF re.outcome # "ok"
            THEN [heap |-> re.heap, outcome |-> re.outcome, out |-> <<>>, rc |-> re.rc]
            ELSE Executed(re, re.heap[t].cache, ExecElems(re.heap[t].cache.elems, data))
    IN Reloaded(IF WantsReload(h[t].fi.present, rl)
                THEN ReloadOn(h, t, files, l, r)
                ELSE [heap |-> h, outcome |-> "ok", rc |-> FALSE])

\* Template.Render: the buffered output, or "" with the error.
RenderOn(h, t, data, files, l, r, rl) ==
    LET Buffered(ex) ==
            IF ex.outcome = "error"
            THEN [heap |-> ex.heap, outcome |-> "error", out |-> <<>>, rc |-> ex.rc]
            ELSE ex
    IN Buffered(ExecuteOn(h, t, data, files, l, r, rl))

Reload(t) ==
    /\ Running
    /\ LET re == ReloadOn(heap, t, fs, ldelim, rdelim)
       IN /\ heap' = re.heap
          /\ ret' = [RetRc("Reload", "", t, re.outcome, <<>>, re.rc) EXCEPT
                         !.was = IF re.rc /\ re.outcome = "ok"
                                 THEN heap[t].cache.ldelim ELSE <<>>]
    /\ UNCHANGED <<mgr, fs, tStrings, tFiles, ldelim, rdelim, reloading, pc>>

Execute(t, data) ==
    /\ Running
    /\ LET ex == ExecuteOn(heap, t, data, fs, ldelim, rdelim, reloading)
       IN /\ heap' = ex.heap
          /\ ret' = RetRc("Execute", data, t, ex.outcome, ex.out, ex.rc)
    /\ UNCHANGED <<mgr, fs, tStrings, tFiles, ldelim, rdelim, reloading, pc>>

Render(t, data) ==
    /\ Running
    /\ LET re == RenderOn(heap, t, data, fs, ldelim, rdelim, reloading)
       IN /\ heap' = re.heap
          /\ ret' = RetRc("Render", data, t, re.outcome, re.out, re.rc)
    /\ UNCHANGED <<mgr, fs, tStrings, tFiles, ldelim, rdelim, reloading, pc>>

Next ==
    \/ \E p \in Paths, c \in Sources, mt \in 0..MaxMtime : WriteFile(p, c, mt)
    \/ \E p \in Paths : DeleteFile(p)
    \/ \E s \in Sources, id \in Ids : Add(s, id)
    \/ \E s \in Sources, id \in Ids : MustAdd(s, id)
    \/ \E f \in Files : AddFile(f)
    \/ \E f \in Files : MustAddFile(f)
    \/ Clear
    \/ \E id \in Ids : Get(id)
    \/ \E f \in Files : GetFile(f)
    \/ \E id \in Ids : Remove(id)
    \/ \E f \in Files : RemoveFile(f)
    \/ \E b \in BOOLEAN : SetReloading(b)
    \/ \E d \in DelimPairs : SetDelims(d[1], d[2])
    \/ \E t \in 1..Len(heap) : Reload(t)
    \/ \E t \in 1..Len(heap), data \in Data : Execute(t, data)
    \/ \E t \in 1..Len(heap), data \in Data : Render(t, data)

Spec == Init /\ [][Next]_vars

(***************************************************************************)
(* The same program with the calls of one concern at a time                *)
(***************************************************************************)
\* File-backed templates: their files, the registry's modes, and the calls on
\* a Template.
NextFiles ==
    \/ \E p \in Paths, c \in Sources, mt \in 0..MaxMtime : WriteFile(p, c, mt)
    \/ \E p \in Paths : DeleteFile(p)
    \/ \E f \in Files : AddFile(f)
    \/ \E f \in Files : MustAddFile(f)
    \/ \E b \in BOOLEAN : SetReloading(b)
    \/ \E d \in DelimPairs : SetDelims(d[1], d[2])
    \/ \E t \in 1..Len(heap) : Reload(t)
    \/ \E t \in 1..Len(heap), data \in Data : Execute(t, data)
    \/ \E t \in 1..Len(heap), data \in Data : Render(t, data)

SpecFiles == Init /\ [][NextFiles]_vars

\* String-backed templates and the calls on a Template.
NextStrings ==
    \/ \E s \in Sources, id \in Ids : Add(s, id)
    \/ \E s \in Sources, id \in Ids : MustAdd(s, id)
    \/ \E id \in Ids : Get(id)
    \/ \E id \in Ids : Remove(id)
    \/ \E d \in DelimPairs : SetDelims(d[1], d[2])
    \/ \E t \in 1..Len(heap) : Reload(t)
    \/ \E t \in 1..Len(heap), data \in Data : Execute(t, data)
    \/ \E t \in 1..Len(heap), data \in Data : Render(t, data)

SpecStrings == Init /\ [][NextStrings]_vars

\* The registry: both maps and what is stored in and removed from them.
NextRegistry ==
    \/ \E p \in Paths, c \in Sources, mt \in 0..MaxMtime : WriteFile(p, c, mt)
    \/ \E p \in Paths : DeleteFile(p)
    \/ \E s \in Sources, id \in Ids : Add(s, id)
    \/ \E s \in Sources, id \in Ids : MustAdd(s, id)
    \/ \E f \in Files : AddFile(f)
    \/ \E f \in Files : MustAddFile(f)
    \/ Clear
    \/ \E id \in Ids : Get(id)
    \/ \E f \in Files : GetFile(f)
    \/ \E id \in Ids : Remove(id)
    \/ \E f \in Files : RemoveFile(f)
    \/ \E d \in DelimPairs : SetDelims(d[1], d[2])

SpecRegistry == Init /\ [][NextRegistry]_vars

\* Lookups, with reloading switched on and off and the files rewritten.
NextLookup ==
    \/ \E p \in Paths, c \in Sources, mt \in 0..MaxMtime : WriteFile(p, c, mt)
    \/ \E s \in Sources, id \in Ids : Add(s, id)
    \/ \E f \in Files : AddFile(f)
    \/ \E id \in Ids : Get(id)
    \/ \E f \in Files : GetFile(f)
    \/ \E b \in BOOLEAN : SetReloading(b)

SpecLookup == Init /\ [][NextLookup]_vars

\* Construction with a formatter table, then templates that name formatters.
NextNew ==
    \/ \E fmap \in UserFmaps : New(baseDir, fmap)
    \/ \E name \in FormatterNames, id \in Ids : AddFormatted(name, id)
    \/ \E name \in FormatterNames, id \in Ids : MustAddFormatted(name, id)
    \/ \E id \in Ids : Remove(id)

SpecNew == InitNew /\ [][NextNew]_vars

\* Construction, then the configuration calls among the calls that load,
\* look up and execute templates.
NextConfig ==
    \/ \E fmap \in {NilFmap, Fmap([k \in {"mine"} |-> "UserFormatter"])} : New(baseDir, fmap)
    \/ \E p \in Paths, c \in Sources, mt \in 0..MaxMtime : WriteFile(p, c, mt)
    \/ \E s \in Sources, id \in Ids : Add(s, id)
    \/ \E f \in Files : AddFile(f)
    \/ \E f \in Files : GetFile(f)
    \/ \E b \in BOOLEAN : SetReloading(b)
    \/ \E d \in DelimPairs : SetDelims(d[1], d[2])
    \/ \E t \in 1..Len(heap) : Reload(t)
    \/ \E t \in 1..Len(heap), data \in Data : Execute(t, data)

SpecConfig == InitNew /\ [][NextConfig]_vars

\* The same with the New of the earlier revisions.
NextNewHist ==
    \/ \E fmap \in UserFmaps : NewHist(baseDir, fmap)
    \/ \E name \in FormatterNames, id \in Ids : AddFormatted(name, id)
    \/ \E name \in FormatterNames, id \in Ids : MustAddFormatted(name, id)
    \/ \E id \in Ids : Remove(id)

SpecNewHist == InitNew /\ [][NextNewHist]_vars

(***************************************************************************)
(* Reload and addFile taken one filesystem access at a time, with other     *)
(* processes writing the files in between                                  *)
(***************************************************************************)
\* Reload up to and including the comparison of the modification times.
ReloadStat(t) ==
    /\ Running
    /\ UNCHANGED <<mgr, fs, heap, tStrings, tFiles, ldelim, rdelim, reloading>>
    /\ IF ~heap[t].fi.present
       THEN ret' = RetRc("Reload", "", t, "panic", <<>>, FALSE) /\ UNCHANGED pc
       ELSE LET curMtime == getMtime(fs, PathJoin(baseDir, heap[t].fi.filename))
            IN IF curMtime.panic
               THEN ret' = RetRc("Reload", "", t, "panic", <<>>, FALSE) /\ UNCHANGED pc
               ELSE IF Changed(curMtime.mtime, heap[t].fi.mtime)
               THEN /\ pc' = [Idle EXCEPT !.step = "Reload.parsett", !.op = "Reload", !.t = t]
                    /\ UNCHANGED ret
               ELSE ret' = RetRc("Reload", "", t, "ok", <<>>, FALSE) /\ UNCHANGED pc

\* t.cache, err = t.m.parsett(path, t.fi.mustParse)
ReloadParse ==
    /\ Alive
    /\ pc.step = "Reload.parsett"
    /\ UNCHANGED <<mgr, fs, tStrings, tFiles, ldelim, rdelim, reloading>>
    /\ LET t == pc.t
           pr == parsett(fs, PathJoin(baseDir, heap[t].fi.filename), heap[t].fi.mustParse,
                         ldelim, rdelim)
       IN IF pr.outcome = "panic"
          THEN /\ ret' = RetRc("Reload", "", t, "panic", <<>>, TRUE)
               /\ pc' = Idle
               /\ UNCHANGED heap
          ELSE IF pr.outcome = "error"
          THEN /\ heap' = [heap EXCEPT ![t].cache = pr.tt]
               /\ ret' = RetRc("Reload", "", t, "error", <<>>, TRUE)
               /\ pc' = Idle
          ELSE /\ heap' = [heap EXCEPT ![t].cache = pr.tt]
               /\ pc' = [pc EXCEPT !.step = "Reload.getMtime"]
               /\ UNCHANGED ret

\* t.fi.mtime = getMtime(path)
ReloadRestat ==
    /\ Alive
    /\ pc.step = "Reload.getMtime"
    /\ UNCHANGED <<mgr, fs, tStrings, tFiles, ldelim, rdelim, reloading>>
    /\ pc' = Idle
    /\ LET t == pc.t
           newMtime == getMtime(fs, PathJoin(baseDir, heap[t].fi.filename))
       IN IF newMtime.panic
          THEN /\ ret' = RetRc("Reload", "", t, "panic", <<>>, TRUE)
               /\ UNCHANGED heap
          ELSE /\ heap' = [heap EXCEPT ![t].fi.mtime = newMtime.mtime]
               /\ ret' = RetRc("Reload", "", t, "ok", <<>>, TRUE)

\* addFile up to and including parsett.
AddFileParse(filename, mustParse, op) ==
    /\ Running
    /\ Len(heap) < MaxObjs
    /\ UNCHANGED <<mgr, fs, heap, tStrings, tFiles, ldelim, rdelim, reloading>>
    /\ LET pr == parsett(fs, PathJoin(baseDir, filename), mustParse, ldelim, rdelim)
       IN IF pr.outcome # "ok"
          THEN ret' = Ret(op, filename, 0, pr.outcome, <<>>) /\ UNCHANGED pc
          ELSE /\ pc' = [Idle EXCEPT !.step = "addFile.getMtime", !.op = op,
                                     !.filename = filename, !.mustParse = mustParse,
                                     !.tt = pr.tt]
               /\ UNCHANGED ret

\* addFile from getMtime on: the Template is built and stored.
AddFileStat ==
    /\ Alive
    /\ pc.step = "addFile.getMtime"
    /\ UNCHANGED <<mgr, fs, tStrings, ldelim, rdelim, reloading>>
    /\ pc' = Idle
    /\ LET mt == getMtime(fs, PathJoin(baseDir, pc.filename))
           t == Len(heap) + 1
       IN IF mt.panic
          THEN /\ ret' = Ret(pc.op, pc.filename, 0, "panic", <<>>)
               /\ UNCHANGED <<heap, tFiles>>
          ELSE /\ heap' = Append(heap, [m |-> thisManager, cache |-> pc.tt,
                                        fi |-> [present |-> TRUE, filename |-> pc.filename,
                                                mtime |-> mt.mtime,
                                                mustParse |-> pc.mustParse]])
               /\ tFiles' = MapPut(tFiles, pc.filename, t)
               /\ ret' = Ret(pc.op, pc.filename, t, "ok", <<>>)

NextRace ==
    \/ \E p \in Paths, c \in Sources, mt \in 0..MaxMtime : WriteFile(p, c, mt)
    \/ \E p \in Paths : DeleteFile(p)
    \/ \E f \in Files : AddFileParse(f, FALSE, "AddFile")
    \/ \E f \in Files : AddFileParse(f, TRUE, "MustAddFile")
    \/ AddFileStat
    \/ \E t \in 1..Len(heap) : ReloadStat(t)
    \/ ReloadParse
    \/ ReloadRestat

SpecRace == Init /\ [][NextRace]_vars

(***************************************************************************)
(* The revision of Template in which Execute reloads through addFile       *)
(***************************************************************************)
\* Template.Execute of that revision: a changed file is parsed into a new
\* Template, which addFile stores under the filename and which this call then
\* executes; the Template the call was made on is left as it was.
ExecuteHistOn(h, tf, t, data, files, l, r, rl) ==
    LET path == PathJoin(baseDir, h[t].fi.filename)
        curMtime == getMtime(files, path)
        entry == MapGet(tf, h[t].fi.filename)
        pr == parsett(files, path, h[entry].fi.mustParse, l, r)
        new == Len(h) + 1
        nh == Append(h, [m |-> thisManager, cache |-> pr.tt,
                         fi |-> [present |-> TRUE, filename |-> h[t].fi.filename,
                                 mtime |-> getMtime(files, path).mtime,
                                 mustParse |-> h[entry].fi.mustParse]])
        run(hh, tff, tt, rc) ==
            LET ex == ExecElems(tt.elems, data)
            IN IF tt.nil
               THEN [heap |-> hh, tFiles |-> tff, outcome |-> "panic", out |-> <<>>, rc |-> rc]
               ELSE [heap |-> hh, tFiles |-> tff,
                     outcome |-> IF ex.err THEN "error" ELSE "ok", out |-> ex.out, rc |-> rc]
        stop(outcome, rc) ==
            [heap |-> h, tFiles |-> tf, outcome |-> outcome, out |-> <<>>, rc |-> rc]
    IN IF h[t].fi.present /\ rl
       THEN IF curMtime.panic
            THEN stop("panic", FALSE)
            ELSE IF curMtime.mtime > h[t].fi.mtime
            THEN IF entry = 0
                 THEN stop("panic", FALSE)
                 ELSE IF pr.outcome # "ok"
                 THEN stop(pr.outcome, TRUE)
                 ELSE run(nh, MapPut(tf, h[t].fi.filename, new), pr.tt, TRUE)
            ELSE run(h, tf, h[t].cache, FALSE)
       ELSE run(h, tf, h[t].cache, FALSE)

\* Template.Render of that revision.
RenderHistOn(h, tf, t, data, files, l, r, rl) ==
    LET ex == ExecuteHistOn(h, tf, t, data, files, l, r, rl)
    IN IF ex.outcome = "error" THEN [ex EXCEPT !.out = <<>>] ELSE ex

ExecuteHist(t, data) ==
    /\ Running
    /\ LET ex == ExecuteHistOn(heap, tFiles, t, data, fs, ldelim, rdelim, reloading)
       IN /\ Len(ex.heap) <= MaxObjs
          /\ heap' = ex.heap
          /\ tFiles' = ex.tFiles
          /\ ret' = RetRc("Execute", data, t, ex.outcome, ex.out, ex.rc)
    /\ UNCHANGED <<mgr, fs, tStrings, ldelim, rdelim, reloading, pc>>

RenderHist(t, data) ==
    /\ Running
    /\ LET re == RenderHistOn(heap, tFiles, t, data, fs, ldelim, rdelim, reloading)
       IN /\ Len(re.heap) <= MaxObjs
          /\ heap' = re.heap
          /\ tFiles' = re.tFiles
          /\ ret' = RetRc("Render", data, t, re.outcome, re.out, re.rc)
    /\ UNCHANGED <<mgr, fs, tStrings, ldelim, rdelim, reloading, pc>>

NextHist ==
    \/ \E p \in Paths, c \in Sources, mt \in 0..MaxMtime : WriteFile(p, c, mt)
    \/ \E p \in Paths : DeleteFile(p)
    \/ \E f \in Files : AddFile(f)
    \/ \E f \in Files : MustAddFile(f)
    \/ Clear
    \/ \E f \in Files : RemoveFile(f)
    \/ \E b \in BOOLEAN : SetReloading(b)
    \/ \E t \in 1..Len(heap), data \in Data : ExecuteHist(t, data)
    \/ \E t \in 1..Len(heap), data \in Data : RenderHist(t, data)

SpecHist == Init /\ [][NextHist]_vars

(***************************************************************************)
(* The first revision: Manager with the delimiters {{ }}, Template holding *)
(* only the compiled template                                              *)
(***************************************************************************)
\* A text that looks up a field, and one with an unclosed action, under {{ }}.
SrcOldField == <<"p", "{", "{", "f", "}", "}">>
SrcOldBad == <<"b", "{", "{">>
OldSources == {SrcStart, SrcOldField, SrcOldBad}

\* New of that revision.
InitOld ==
    /\ fs = [p \in Paths |-> NoFile]
    /\ heap = <<>>
    /\ tStrings = EmptyMap
    /\ tFiles = EmptyMap
    /\ ldelim = <<"{", "{">>
    /\ rdelim = <<"}", "}">>
    /\ reloading = FALSE
    /\ mgr = NewHistOn(baseDir, NilFmap)
    /\ pc = Idle
    /\ ret = Ret("New", "", 0, "ok", <<>>)

\* Manager.add of that revision.
addOld(s, id, mustParse, op) ==
    /\ Running
    /\ LET p == Parse(s, ldelim, rdelim)
           t == Len(heap) + 1
       IN IF p.err
          THEN /\ ret' = Ret(op, id, 0, IF mustParse THEN "panic" ELSE "error", <<>>)
               /\ UNCHANGED <<heap, tStrings>>
          ELSE /\ Len(heap) < MaxObjs
               /\ heap' = Append(heap, [cache |-> Tt(p.elems, ldelim, rdelim), fi |-> NilFi])
               /\ tStrings' = MapPut(tStrings, id, t)
               /\ ret' = Ret(op, id, t, "ok", <<>>)
    /\ UNCHANGED <<mgr, fs, tFiles, ldelim, rdelim, reloading, pc>>

\* Template.Execute of that revision: the outcome and what was written to wr.
ExecuteOldOn(h, t, data) ==
    LET ex == ExecElems(h[t].cache.elems, data)
    IN [outcome |-> IF ex.err THEN "error" ELSE "ok", out |-> ex.out]

\* Template.Render of that revision: the error of Execute is logged, and the
\* buffer is returned with a nil error.
RenderOldOn(h, t, data) ==
    LET ex == ExecuteOldOn(h, t, data)
    IN [outcome |-> "ok", out |-> ex.out]

ExecuteOld(t, data) ==
    /\ Running
    /\ ret' = LET ex == ExecuteOldOn(heap, t, data)
              IN Ret("Execute", data, t, ex.outcome, ex.out)
    /\ UNCHANGED <<mgr, fs, heap, tStrings, tFiles, ldelim, rdelim, reloading, pc>>

RenderOld(t, data) ==
    /\ Running
    /\ ret' = LET re == RenderOldOn(heap, t, data)
              IN Ret("Render", data, t, re.outcome, re.out)
    /\ UNCHANGED <<mgr, fs, heap, tStrings, tFiles, ldelim, rdelim, reloading, pc>>

NextOld ==
    \/ \E s \in OldSources, id \in Ids : addOld(s, id, FALSE, "Add")
    \/ \E s \in OldSources, id \in Ids : addOld(s, id, TRUE, "MustAdd")
    \/ \E d \in DelimPairs : SetDelims(d[1], d[2])
    \/ \E id \in Ids : Remove(id)
    \/ \E t \in 1..Len(heap), data \in Data : ExecuteOld(t, data)
    \/ \E t \in 1..Len(heap), data \in Data : RenderOld(t, data)

SpecOld == InitOld /\ [][NextOld]_vars

(***************************************************************************)
(* The revision with two file loaders: AddFile drops the file's ending      *)
(* newline, AddFilenl does not; tFiles is keyed by the joined path          *)
(***************************************************************************)
\* File contents with no, one and two ending newlines, and one that does not
\* parse under {{ }}.
NlSources ==
    {<<>>, <<"\n">>, <<"a">>, <<"a", "\n">>, <<"a", "\n", "\n">>, <<"{", "{", "\n">>}

InitNl ==
    /\ fs \in [Paths -> {NoFile} \cup
                        {[exists |-> TRUE, mtime |-> 0, content |-> c] : c \in NlSources}]
    /\ heap = <<>>
    /\ tStrings = EmptyMap
    /\ tFiles = EmptyMap
    /\ ldelim = <<"{", "{">>
    /\ rdelim = <<"}", "}">>
    /\ reloading = FALSE
    /\ mgr = NewHistOn(baseDir, NilFmap)
    /\ pc = Idle
    /\ ret = Ret("New", "", 0, "ok", <<>>)

\* readFileNl that drops every ending newline.
readFileNl_DropsAll(files, path) ==
    LET RECURSIVE Strip(_)
        Strip(in) == IF Len(in) > 0 /\ in[Len(in)] = "\n"
                     THEN Strip(SubSeq(in, 1, Len(in) - 1)) ELSE in
    IN IF ~files[path].exists
       THEN [err |-> TRUE, in |-> <<>>]
       ELSE [err |-> FALSE, in |-> Strip(files[path].content)]

\* readFileNl: ioutil.ReadFile, then the last byte is dropped if it is '\n'.
readFileNl(files, path) ==
    IF ~files[path].exists
    THEN [err |-> TRUE, in |-> <<>>]
    ELSE LET in == files[path].content
         IN [err |-> FALSE,
             in |-> IF Len(in) > 0 /\ in[Len(in)] = "\n"
                    THEN SubSeq(in, 1, Len(in) - 1) ELSE in]

\* Manager.addFile(filename, ignoreEndingNl, mustParse) of that revision on the
\* heap h and the map tf: what it leaves and returns.
addFileNlOn(h, tf, filename, ignoreEndingNl, mustParse, files, l, r) ==
    LET path == PathJoin(baseDir, filename)
        Parsed(p) ==
            IF p.err
            THEN [heap |-> h, tFiles |-> tf, t |-> 0,
                  outcome |-> IF mustParse THEN "panic" ELSE "error"]
            ELSE [heap |-> Append(h, [cache |-> Tt(p.elems, l, r), fi |-> NilFi]),
                  tFiles |-> MapPut(tf, path, Len(h) + 1), t |-> Len(h) + 1,
                  outcome |-> "ok"]
        Read(bstr) ==
            IF bstr.err
            THEN [heap |-> h, tFiles |-> tf, t |-> 0,
                  outcome |-> IF mustParse THEN "panic" ELSE "error"]
            ELSE Parsed(Parse(bstr.in, l, r))
    IN IF ignoreEndingNl
       THEN Read(readFileNl(files, path))
       ELSE Parsed(ParseFile(files, path, l, r))

addFileNl(filename, ignoreEndingNl, mustParse, op) ==
    /\ Running
    /\ LET a == addFileNlOn(heap, tFiles, filename, ignoreEndingNl, mustParse, fs,
                            ldelim, rdelim)
       IN /\ Len(a.heap) <= MaxObjs
          /\ heap' = a.heap
          /\ tFiles' = a.tFiles
          /\ ret' = Ret(op, filename, a.t, a.outcome, <<>>)
    /\ UNCHANGED <<mgr, fs, tStrings, ldelim, rdelim, reloading, pc>>

AddFileOld(filename) == addFileNl(filename, TRUE, FALSE, "AddFile")
AddFilenl(filename) == addFileNl(filename, FALSE, FALSE, "AddFilenl")
MustAddFileOld(filename) == addFileNl(filename, TRUE, TRUE, "MustAddFile")
MustAddFilenl(filename) == addFileNl(filename, FALSE, TRUE, "MustAddFilenl")

\* Manager.GetFile of that revision
GetFileOld(filename) ==
    /\ Running
    /\ ret' = Ret("GetFile", filename, MapGet(tFiles, PathJoin(baseDir, filename)), "ok", <<>>)
    /\ UNCHANGED <<mgr, fs, heap, tStrings, tFiles, ldelim, rdelim, reloading, pc>>

\* Manager.RemoveFile of that revision
RemoveFileOld(filename) ==
    /\ Running
    /\ tFiles' = MapDelete(tFiles, PathJoin(baseDir, filename))
    /\ ret' = Ret("RemoveFile", filename, 0,
                  IF PathJoin(baseDir, filename) \in DOMAIN tFiles THEN "true" ELSE "false",
                  <<>>)
    /\ UNCHANGED <<mgr, fs, heap, tStrings, ldelim, rdelim, reloading, pc>>

NextNl ==
    \/ \E p \in Paths, c \in NlSources : WriteFile(p, c, 0)
    \/ \E p \in Paths : DeleteFile(p)
    \/ \E f \in Files : AddFileOld(f)
    \/ \E f \in Files : AddFilenl(f)
    \/ \E f \in Files : MustAddFileOld(f)
    \/ \E f \in Files : MustAddFilenl(f)
    \/ \E f \in Files : GetFileOld(f)
    \/ \E f \in Files : RemoveFileOld(f)

SpecNl == InitNl /\ [][NextNl]_vars

(***************************************************************************)
(* MustAddDir: paths as sequences of characters                            *)
(***************************************************************************)
\* The components of a path: the texts between its separators.
RECURSIVE Components(_)
Components(s) ==
    LET j == FindFrom(s, <<"/">>, 1)
    IN IF j = 0 THEN <<s>>
       ELSE <<SubSeq(s, 1, j - 1)>> \o Components(SubSeq(s, j + 1, Len(s)))

\* path.Clean on the components still to read, given the ones kept so far:
\* empty and "." components are dropped, ".." drops the component before it
\* (at the root it is dropped, at the start of a relative path it is kept).
RECURSIVE CleanFrom(_, _, _)
CleanFrom(comps, kept, rooted) ==
    IF comps = <<>> THEN kept
    ELSE LET c == Head(comps)
             rest == Tail(comps)
         IN IF c = <<>> \/ c = <<".">>
            THEN CleanFrom(rest, kept, rooted)
            ELSE IF c = <<".", ".">>
            THEN IF kept # <<>> /\ kept[Len(kept)] # <<".", ".">>
                 THEN CleanFrom(rest, SubSeq(kept, 1, Len(kept) - 1), rooted)
                 ELSE IF rooted THEN CleanFrom(rest, kept, rooted)
                 ELSE CleanFrom(rest, Append(kept, c), rooted)
            ELSE CleanFrom(rest, Append(kept, c), rooted)

\* The components put together again with one separator between them.
RECURSIVE Glue(_)
Glue(comps) ==
    IF comps = <<>> THEN <<>>
    ELSE IF Len(comps) = 1 THEN comps[1]
    ELSE comps[1] \o <<"/">> \o Glue(Tail(comps))

\* path.Clean
Clean(s) ==
    IF s = <<>> THEN <<".">>
    ELSE LET rooted == s[1] = "/"
             out == Glue(CleanFrom(Components(s), <<>>, rooted))
         IN IF rooted THEN <<"/">> \o out
            ELSE IF out = <<>> THEN <<".">> ELSE out

\* path.Join of two elements: empty elements are ignored, the rest joined by
\* a separator and cleaned; "" when both are empty.
Join(a, b) ==
    IF a = <<>> /\ b = <<>> THEN <<>>
    ELSE IF a = <<>> THEN Clean(b)
    ELSE IF b = <<>> THEN Clean(a)
    ELSE Clean(a \o <<"/">> \o b)

\* The regular files of the tree, by their path from the working directory.
TreeFiles == {<<"t", "/", "x">>, <<"t", "/", "d", "/", "y", "z">>}

\* Base directories New is called with: clean, with an ending separator,
\* empty, not in cleaned form, and the working directory.
BaseDirs == {<<"t">>, <<"t", "/">>, <<>>, <<".", "/", "t">>, <<".">>}

\* Directories MustAddDir is called with.
Dirs == {<<>>, <<"d">>, <<"t">>}

\* Is s followed by a separator a prefix of p?
IsUnder(p, s) ==
    /\ Len(p) > Len(s) + 1
    /\ SubSeq(p, 1, Len(s)) = s
    /\ p[Len(s) + 1] = "/"

\* filepath.Walk(root, m, nil): the paths VisitFile is called with.  Lstat of a
\* root that does not exist ends the walk; a root that is a regular file is
\* visited itself; below a directory every regular file is visited under the
\* path joined from the root and the names on the way to it.
Walked(root, files) ==
    LET there == {p \in DOMAIN files : files[p].exists}
    IN IF root = <<>> THEN {}
       ELSE IF root = <<".">> THEN there
       ELSE {p \in there : p = root \/ IsUnder(p, root)}

\* Manager.VisitFile: the key MustAddFile is called with; indexing path_ at
\* len(m.baseDir) panics when path_ is no longer than that.
VisitFileKey(base, path_) ==
    IF Len(base) >= Len(path_)
    THEN [panic |-> TRUE, key |-> <<>>]
    ELSE IF path_[Len(base) + 1] = "/"
    THEN [panic |-> FALSE, key |-> SubSeq(path_, Len(base) + 2, Len(path_))]
    ELSE [panic |-> FALSE, key |-> SubSeq(path_, Len(base) + 1, Len(path_))]

\* The file at path p, also for a path that names nothing.
FileAt(files, p) == IF p \in DOMAIN files THEN files[p] ELSE NoFile

\* Manager.addFile under the base directory base, on the heap h and the map
\* tf: what it leaves and returns.
addFileAtOn(h, tf, base, filename, mustParse, files, l, r) ==
    LET path == Join(base, filename)
        at == [q \in {path} |-> FileAt(files, q)]
        Stored(pr, mt) ==
            IF pr.outcome # "ok"
            THEN [heap |-> h, tFiles |-> tf, t |-> 0, outcome |-> pr.outcome]
            ELSE IF mt.panic
            THEN [heap |-> h, tFiles |-> tf, t |-> 0, outcome |-> "panic"]
            ELSE [heap |-> Append(h, [m |-> thisManager, cache |-> pr.tt,
                                      fi |-> [present |-> TRUE, filename |-> filename,
                                              mtime |-> mt.mtime, mustParse |-> mustParse]]),
                  tFiles |-> MapPut(tf, filename, Len(h) + 1), t |-> Len(h) + 1,
                  outcome |-> "ok"]
    IN Stored(parsett(at, path, mustParse, l, r), getMtime(at, path))

\* The calls of VisitFile for the paths of order, one after the other: each
\* strips the base directory and calls MustAddFile; a panic ends the walk.
RECURSIVE VisitFiles(_, _, _, _, _, _, _)
VisitFiles(h, tf, base, order, files, l, r) ==
    IF order = <<>> THEN [heap |-> h, tFiles |-> tf, outcome |-> "ok"]
    ELSE LET Added(a) ==
                 IF a.outcome # "ok"
                 THEN [heap |-> a.heap, tFiles |-> a.tFiles, outcome |-> "panic"]
                 ELSE VisitFiles(a.heap, a.tFiles, base, Tail(order), files, l, r)
             Visited(v) ==
                 IF v.panic
                 THEN [heap |-> h, tFiles |-> tf, outcome |-> "panic"]
                 ELSE Added(addFileAtOn(h, tf, base, v.key, TRUE, files, l, r))
         IN Visited(VisitFileKey(base, Head(order)))

\* The orders a directory walk can visit the paths of S in.
Orders(S) ==
    {o \in UNION {[1..n -> S] : n \in {Cardinality(S)}} :
        \A i, j \in DOMAIN o : i # j => o[i] # o[j]}

\* Manager.MustAddDir: filepath.Walk(path.Join(m.baseDir, dir), m, nil), the
\* directory entries read in the order order.
MustAddDir(dir, order) ==
    /\ Running
    /\ order \in Orders(Walked(Join(mgr.baseDir, dir), fs))
    /\ LET w == VisitFiles(heap, tFiles, mgr.baseDir, order, fs, ldelim, rdelim)
       IN /\ Len(w.heap) <= MaxObjs
          /\ heap' = w.heap
          /\ tFiles' = w.tFiles
          /\ ret' = Ret("MustAddDir", dir, 0, w.outcome, <<>>)
    /\ UNCHANGED <<mgr, fs, tStrings, ldelim, rdelim, reloading, pc>>

\* New(base, nil) for one of the base directories, over one of the trees.
InitDir ==
    /\ fs \in [TreeFiles -> {NoFile} \cup
                            {[exists |-> TRUE, mtime |-> 0, content |-> c] :
                                 c \in {SrcStart, SrcBad}}]
    /\ heap = <<>>
    /\ tStrings = EmptyMap
    /\ tFiles = EmptyMap
    /\ ldelim = <<"{">>
    /\ rdelim = <<"}">>
    /\ reloading = FALSE
    /\ \E base \in BaseDirs : mgr = NewOn(base, NilFmap)
    /\ pc = Idle
    /\ ret = Ret("New", "", 0, "ok", <<>>)

NextDir ==
    \/ \E dir \in Dirs : \E order \in Orders(Walked(Join(mgr.baseDir, dir), fs)) :
          MustAddDir(dir, order)
    \/ \E k \in DOMAIN tFiles \cup {<<"x">>} : GetFile(k)
    \/ \E k \in DOMAIN tFiles \cup {<<"x">>} : RemoveFile(k)
    \/ Clear

SpecDir == InitDir /\ [][NextDir]_vars

(***************************************************************************)
(* The built-in formatters: a formatter writes the bytes of its field      *)
(* values to the writer it is given                                        *)
(***************************************************************************)
MaxBytes == 4

FormatBytes == {"\"", "'", "\\", "a"}

BytesUpTo(n) == UNION {[1..k -> FormatBytes] : k \in 0..n}

\* The field values a template hands to a formatter: one []byte, one string,
\* or two strings ({a b|addSlashes}).
FormatData ==
    {<<[kind |-> "bytes", val |-> b]>> : b \in BytesUpTo(MaxBytes)}
        \cup {<<[kind |-> "string", val |-> b]>> : b \in BytesUpTo(MaxBytes)}
        \cup {<<[kind |-> "string", val |-> a], [kind |-> "string", val |-> b]>> :
                 a \in BytesUpTo(1), b \in BytesUpTo(MaxBytes - 1)}

\* fmt.Fprint(&buf, data...) of strings: their bytes, with nothing between.
RECURSIVE Fprint(_, _)
Fprint(buf, data) ==
    IF data = <<>> THEN buf ELSE Fprint(buf \o Head(data).val, Tail(data))

getBytes(data) ==
    IF Len(data) = 1 /\ data[1].kind = "bytes"
    THEN data[1].val
    ELSE Fprint(<<>>, data)

\* AddSlashesFormatter as its comment describes it: a slash before the single
\* quote too.
AddSlashesFormatter_AlsoSingleQuote(w, formatter, data) ==
    LET b == getBytes(data)
        RECURSIVE range(_, _)
        range(out, i) ==
            IF i > Len(b) THEN out
            ELSE IF b[i] \in {"\"", "'"}
                 THEN range(out \o <<"\\", b[i]>>, i + 1)
                 ELSE range(out \o <<b[i]>>, i + 1)
    IN range(w, 1)

\* The writer after AddSlashesFormatter(w, formatter, data...).
AddSlashesFormatter(w, formatter, data) ==
    LET b == getBytes(data)
        RECURSIVE range(_, _)
        range(out, i) ==
            IF i > Len(b) THEN out
            ELSE IF b[i] = "\""
                 THEN range(out \o <<"\\", "\"">>, i + 1)
                 ELSE range(out \o <<b[i]>>, i + 1)
    IN range(w, 1)

\* A template is about to format a field: the writer holds what was written
\* before, the call record the field values.
InitFormat ==
    /\ fs \in [Paths -> {NoFile}]
    /\ heap = <<>>
    /\ tStrings = EmptyMap
    /\ tFiles = EmptyMap
    /\ ldelim = <<"{">>
    /\ rdelim = <<"}">>
    /\ reloading = FALSE
    /\ mgr = NewOn(baseDir, NilFmap)
    /\ pc = [Idle EXCEPT !.step = "format"]
    /\ \E data \in FormatData : \E w \in {<<>>, <<"\"">>} :
          ret = Ret("", data, 0, "ok", w)

\* {field|addSlashes}
AddSlashes ==
    /\ pc.step = "format"
    /\ mgr.fmap.tab["addSlashes"] = "AddSlashesFormatter"
    /\ ret' = [Ret("addSlashes", ret.key, 0, "ok",
                   AddSlashesFormatter(ret.out, "addSlashes", ret.key))
                 EXCEPT !.was = ret.out]
    /\ pc' = Idle
    /\ UNCHANGED <<mgr, fs, heap, tStrings, tFiles, ldelim, rdelim, reloading>>

NextFormat == AddSlashes

SpecFormat == InitFormat /\ [][NextFormat]_vars

(***************************************************************************)
(* capFirst: bytes as numbers 0..255, code points as numbers               *)
(***************************************************************************)
MaxCapBytes == 3

\* 'a', the lead bytes C4, C7 (two bytes) and E2 (three bytes), the
\* continuation bytes A5, B1, BF, and FF, which starts no encoding.
CapBytes == {97, 196, 199, 226, 165, 177, 191, 255}

CapBytesUpTo(n) == UNION {[1..k -> CapBytes] : k \in 0..n}

CapData ==
    {<<[kind |-> "bytes", val |-> b]>> : b \in CapBytesUpTo(MaxCapBytes)}
        \cup {<<[kind |-> "string", val |-> b]>> : b \in CapBytesUpTo(MaxCapBytes)}

RuneError == 65533

IsCont(c) == c >= 128 /\ c < 192

\* utf8.DecodeRune(b): the first code point and the number of bytes it takes;
\* (RuneError, 1) for a byte that starts no shortest-form encoding.
DecodeRune(b) ==
    LET n == Len(b)
        bad == [rune |-> RuneError, size |-> 1]
    IN IF n < 1 THEN [rune |-> RuneError, size |-> 0]
       ELSE IF b[1] < 128 THEN [rune |-> b[1], size |-> 1]
       ELSE IF b[1] < 192 THEN bad
       ELSE IF n < 2 THEN bad
       ELSE IF ~IsCont(b[2]) THEN bad
       ELSE IF b[1] < 224
            THEN LET r == (b[1] % 32) * 64 + (b[2] % 64)
                 IN IF r <= 127 THEN bad ELSE [rune |-> r, size |-> 2]
       ELSE IF n < 3 THEN bad
       ELSE IF ~IsCont(b[3]) THEN bad
       ELSE IF b[1] < 240
            THEN LET r == (b[1] % 16) * 4096 + (b[2] % 64) * 64 + (b[3] % 64)
                 IN IF r <= 2047 THEN bad ELSE [rune |-> r, size |-> 3]
       ELSE IF n < 4 THEN bad
       ELSE IF ~IsCont(b[4]) THEN bad
       ELSE IF b[1] < 248
            THEN LET r == (b[1] % 8) * 262144 + (b[2] % 64) * 4096
                              + (b[3] % 64) * 64 + (b[4] % 64)
                 IN IF r <= 65535 THEN bad ELSE [rune |-> r, size |-> 4]
       ELSE bad

\* unicode.ToUpper on the code points the bytes above can spell:
\* a, U+0125, U+0131 (dotless i, whose capital is the one-byte I), U+01E5,
\* U+01FF, U+2C65 (whose capital U+023A takes two bytes); the others have no
\* capital of their own.
ToUpper(rune) ==
    CASE rune = 97 -> 65
      [] rune = 293 -> 292
      [] rune = 305 -> 73
      [] rune = 485 -> 484
      [] rune = 511 -> 510
      [] rune = 11365 -> 570
      [] OTHER -> rune

\* utf8.RuneLen(rune)
RuneLen(rune) ==
    IF rune <= 127 THEN 1
    ELSE IF rune <= 2047 THEN 2
    ELSE IF rune <= 65535 THEN 3
    ELSE IF rune <= 2097151 THEN 4
    ELSE -1

\* utf8.EncodeRune: the bytes of the code point.
EncodeRune(rune) ==
    IF rune <= 127 THEN <<rune>>
    ELSE IF rune <= 2047 THEN <<192 + (rune \div 64), 128 + (rune % 64)>>
    ELSE IF rune <= 65535
         THEN <<224 + (rune \div 4096), 128 + ((rune \div 64) % 64), 128 + (rune % 64)>>
    ELSE <<240 + (rune \div 262144), 128 + ((rune \div 4096) % 64),
           128 + ((rune \div 64) % 64), 128 + (rune % 64)>>

\* CapFirstFormatter that skips as many bytes of the input as the capital
\* takes.
CapFirstFormatter_SkipsCapSize(w, formatter, data) ==
    LET b == getBytes(data)
    IN IF Len(b) > 0
       THEN LET d == DecodeRune(b)
                up == ToUpper(d.rune)
                capSize == RuneLen(up)
                capb == SubSeq(EncodeRune(up), 1, capSize)
            IN (w \o capb) \o SubSeq(b, capSize + 1, Len(b))
       ELSE w

\* The writer after CapFirstFormatter(w, formatter, data...): capb has capSize
\* bytes and EncodeRune fills them, then b[size:] follows.
CapFirstFormatter(w, formatter, data) ==
    LET b == getBytes(data)
    IN IF Len(b) > 0
       THEN LET d == DecodeRune(b)
                up == ToUpper(d.rune)
                capSize == RuneLen(up)
                capb == SubSeq(EncodeRune(up), 1, capSize)
            IN (w \o capb) \o SubSeq(b, d.size + 1, Len(b))
       ELSE w

InitCap ==
    /\ fs \in [Paths -> {NoFile}]
    /\ heap = <<>>
    /\ tStrings = EmptyMap
    /\ tFiles = EmptyMap
    /\ ldelim = <<"{">>
    /\ rdelim = <<"}">>
    /\ reloading = FALSE
    /\ mgr = NewOn(baseDir, NilFmap)
    /\ pc = [Idle EXCEPT !.step = "format"]
    /\ \E data \in CapData : \E w \in {<<>>, <<97>>} :
          ret = Ret("", data, 0, "ok", w)

\* {field|capFirst}
CapFirst ==
    /\ pc.step = "format"
    /\ mgr.fmap.tab["capFirst"] = "CapFirstFormatter"
    /\ ret' = [Ret("capFirst", ret.key, 0, "ok",
                   CapFirstFormatter(ret.out, "capFirst", ret.key))
                 EXCEPT !.was = ret.out]
    /\ pc' = Idle
    /\ UNCHANGED <<mgr, fs, heap, tStrings, tFiles, ldelim, rdelim, reloading>>

NextCap == CapFirst

SpecCap == InitCap /\ [][NextCap]_vars

(***************************************************************************)
(* Properties                                                              *)
(***************************************************************************)
Objs == 1..Len(heap)
FileBacked(t) == heap[t].fi.present
PathOf(t) == PathJoin(baseDir, heap[t].fi.filename)
FileOf(t) == fs[PathOf(t)]
\* What compiling the text c under the registry's current delimiters gives.
Parses(c) == ~Parse(c, ldelim, rdelim).err
Compiled(c) == Tt(Parse(c, ldelim, rdelim).elems, ldelim, rdelim)
\* The file of t is newer than the modification time recorded in t.
Newer(t) == FileOf(t).exists /\ FileOf(t).mtime > heap[t].fi.mtime

\* C1: a Reload of a file-backed template that fails because the file is gone
\* or its contents do not parse returns an error and leaves the compiled
\* representation and the recorded modification time as they were.
C1_ReloadFailureKeepsLastGood ==
    [][\A t \in Objs :
          ( /\ Reload(t)
            /\ FileBacked(t)
            /\ ~heap[t].fi.mustParse
            /\ \/ ~FileOf(t).exists
               \/ Newer(t) /\ ~Parses(FileOf(t).content) )
          => (ret'.outcome = "error" /\ heap' = heap)]_vars

\* C2: Reload on a string-backed template returns success and changes nothing.
C2_ReloadOnStringTemplateIsNoOp ==
    [][\A t \in Objs :
          (Reload(t) /\ ~FileBacked(t))
          => (ret'.outcome = "ok" /\ heap' = heap)]_vars

\* C6: when a Reload that reparsed the file returns, a recorded modification
\* time equal to the file's current one means the compiled representation
\* was compiled from the file's current contents, whatever was written to the
\* file while Reload ran.
C6_NoLostChangeDuringReload ==
    [][(ReloadRestat /\ ret'.outcome = "ok")
       => LET t == pc.t
          IN heap'[t].fi.mtime = fs'[PathOf(t)].mtime
             => heap'[t].cache = Compiled(fs'[PathOf(t)].content)
      ]_vars

\* C3: a reload, explicit or made by Execute, leaves the registry's entry for
\* the file the same object, and the Template the call was made on holds the
\* reloaded content afterwards.
C3_ReloadKeepsIdentity ==
    [][\A t \in Objs, d \in Data :
          ( /\ \/ Reload(t) \/ Execute(t, d) \/ Render(t, d)
               \/ ExecuteHist(t, d) \/ RenderHist(t, d)
            /\ ret'.rc
            /\ ret'.outcome = "ok" )
          => ( /\ tFiles' = tFiles
               /\ heap'[t].cache = Compiled(FileOf(t).content) )]_vars

\* C9: when Execute fails, Render returns the empty string and the error.
C9_RenderNoPartialOutput ==
    [][\A t \in Objs, d \in Data :
          /\ (Render(t, d) /\ ExecuteOn(heap, t, d, fs, ldelim, rdelim, reloading).outcome = "error")
             => (ret'.outcome = "error" /\ ret'.out = <<>>)
          /\ (RenderHist(t, d)
              /\ ExecuteHistOn(heap, tFiles, t, d, fs, ldelim, rdelim, reloading).outcome = "error")
             => (ret'.outcome = "error" /\ ret'.out = <<>>)
          /\ (RenderOld(t, d) /\ ExecuteOldOn(heap, t, d).outcome = "error")
             => (ret'.outcome = "error" /\ ret'.out = <<>>)]_vars

\* The outcome and output of executing the compiled template tt on data d.
Outcome(tt, d) == IF ExecElems(tt.elems, d).err THEN "error" ELSE "ok"
Output(tt, d) == ExecElems(tt.elems, d).out

\* C4: while reloading is off, Execute and Render leave every Template as it
\* is (no reparse, same recorded modification time) and give the output of
\* the compiled template the Template already holds, whatever the file is now.
C4_NoReloadWhileDisabled ==
    ~reloading =>
        \A t \in Objs, d \in Data :
            LET ex == ExecuteOn(heap, t, d, fs, ldelim, rdelim, reloading)
                re == RenderOn(heap, t, d, fs, ldelim, rdelim, reloading)
                tt == heap[t].cache
            IN /\ ex.heap = heap /\ ~ex.rc
               /\ re.heap = heap /\ ~re.rc
               /\ ~tt.nil =>
                    /\ ex.outcome = Outcome(tt, d) /\ ex.out = Output(tt, d)
                    /\ re.outcome = Outcome(tt, d)
                    /\ re.outcome = "ok" => re.out = Output(tt, d)

\* A Render with reloading off has returned the output of the old compiled
\* template although the file is newer and would render differently.
C4_Witness ==
    /\ ret.op = "Render" /\ ret.outcome = "ok" /\ ~ret.rc
    /\ ~reloading
    /\ FileBacked(ret.t) /\ Newer(ret.t) /\ Parses(FileOf(ret.t).content)
    /\ ret.out = Output(heap[ret.t].cache, ret.key)
    /\ ret.out # Output(Compiled(FileOf(ret.t).content), ret.key)

\* C5: with reloading on, when the file of a Template is newer than the
\* recorded modification time and its contents parse, Execute and Render give
\* the output of the file's contents.
C5_ReloadingRendersModified ==
    reloading =>
        \A t \in Objs, d \in Data :
            (FileBacked(t) /\ Newer(t) /\ Parses(FileOf(t).content)) =>
                LET ex == ExecuteOn(heap, t, d, fs, ldelim, rdelim, reloading)
                    re == RenderOn(heap, t, d, fs, ldelim, rdelim, reloading)
                    tt == Compiled(FileOf(t).content)
                IN /\ ex.rc /\ ex.heap[t].cache = tt
                   /\ ex.outcome = Outcome(tt, d) /\ ex.out = Output(tt, d)
                   /\ re.outcome = Outcome(tt, d)
                   /\ re.outcome = "ok" => re.out = Output(tt, d)

\* A Render with reloading on has reparsed the file and returned the output
\* of its contents.
C5_Witness ==
    /\ ret.op = "Render" /\ ret.outcome = "ok" /\ ret.rc
    /\ reloading
    /\ FileOf(ret.t).exists /\ heap[ret.t].fi.mtime = FileOf(ret.t).mtime
    /\ heap[ret.t].cache = Compiled(FileOf(ret.t).content)
    /\ ret.out = Output(Compiled(FileOf(ret.t).content), ret.key)

C8_DelimsAtReloadTime ==
    \A t \in Objs :
        /\ \A d \in Data, dl \in DelimPairs :
              ExecuteOn(heap, t, d, fs, dl[1], dl[2], FALSE) =
                  [heap |-> heap,
                   outcome |-> IF heap[t].cache.nil THEN "panic"
                               ELSE Outcome(heap[t].cache, d),
                   out |-> IF heap[t].cache.nil THEN <<>> ELSE Output(heap[t].cache, d),
                   rc |-> FALSE]
        /\ (FileBacked(t) /\ Newer(t) /\ ~Parse(FileOf(t).content, ldelim, rdelim).err) =>
               ReloadOn(heap, t, fs, ldelim, rdelim).heap[t].cache =
                   Tt(Parse(FileOf(t).content, ldelim, rdelim).elems, ldelim, rdelim)

\* A Reload under the delimiters [ ] has replaced a template compiled under
\* { } by the file compiled under [ ], which { } would compile differently.
C8_Witness ==
    /\ ret.op = "Reload" /\ ret.outcome = "ok" /\ ret.rc
    /\ ret.was = <<"{">>
    /\ ldelim = <<"[">> /\ rdelim = <<"]">>
    /\ heap[ret.t].cache.ldelim = <<"[">>
    /\ heap[ret.t].cache.elems = Parse(FileOf(ret.t).content, <<"[">>, <<"]">>).elems
    /\ heap[ret.t].cache.elems # Parse(FileOf(ret.t).content, <<"{">>, <<"}">>).elems

\* C10: a failing Add or AddFile returns nil and an error and leaves the heap
\* and both maps as they are.
C10_FailedAddLeavesRegistry ==
    /\ \A s \in Sources, id \in Ids :
          Parse(s, ldelim, rdelim).err =>
              addOn(heap, tStrings, tFiles, s, id, FALSE, ldelim, rdelim) =
                  [heap |-> heap, tStrings |-> tStrings, tFiles |-> tFiles,
                   t |-> 0, outcome |-> "error"]
    /\ \A f \in Files :
          ParseFile(fs, PathJoin(baseDir, f), ldelim, rdelim).err =>
              addFileOn(heap, tStrings, tFiles, f, FALSE, fs, ldelim, rdelim) =
                  [heap |-> heap, tStrings |-> tStrings, tFiles |-> tFiles,
                   t |-> 0, outcome |-> "error"]

\* An Add has failed while entries were stored under its identifier and
\* under the same key in the file map; both are still there.
C10_Witness ==
    /\ ret.op = "Add" /\ ret.outcome = "error" /\ ret.t = 0
    /\ ret.key \in DOMAIN tStrings /\ tStrings[ret.key] \in Objs
    /\ ret.key \in DOMAIN tFiles /\ tFiles[ret.key] \in Objs

C12_FileKeyIsShared ==
    /\ \A f \in Files :
          LET a == addFileOn(heap, tStrings, tFiles, f, FALSE, fs, ldelim, rdelim)
          IN a.outcome = "ok" =>
                /\ a.t # 0 /\ MapGet(a.tFiles, f) = a.t
                /\ Cardinality({k \in DOMAIN a.tFiles : a.tFiles[k] = a.t}) = 1
                /\ MapGet(MapDelete(a.tFiles, f), f) = 0
    /\ (ret.op = "AddFile" /\ ret.outcome = "ok") =>
          /\ ret.t # 0 /\ MapGet(tFiles, ret.key) = ret.t
          /\ Cardinality({k \in DOMAIN tFiles : tFiles[k] = ret.t}) = 1
    /\ ret.op = "GetFile" => ret.t = MapGet(tFiles, ret.key)
    /\ ret.op = "RemoveFile" => MapGet(tFiles, ret.key) = 0 /\ ret.key \notin DOMAIN tFiles

\* A RemoveFile has removed the entry of a Template AddFile had stored under
\* the same filename.
C12_Witness ==
    /\ ret.op = "RemoveFile" /\ ret.outcome = "true"
    /\ ret.key \notin DOMAIN tFiles
    /\ \E t \in Objs : FileBacked(t) /\ heap[t].fi.filename = ret.key

\* C13: Remove and RemoveFile return true exactly when the key was stored
\* before the call, leave the key absent, and change nothing when it was absent.
C13_RemoveReportsPresence ==
    [][/\ \A id \in Ids :
             Remove(id) =>
                /\ ret'.outcome = IF id \in DOMAIN tStrings THEN "true" ELSE "false"
                /\ id \notin DOMAIN tStrings'
                /\ id \notin DOMAIN tStrings => tStrings' = tStrings
                /\ UNCHANGED <<mgr, fs, heap, tFiles, ldelim, rdelim, reloading>>
       /\ \A f \in Files :
             RemoveFile(f) =>
                /\ ret'.outcome = IF f \in DOMAIN tFiles THEN "true" ELSE "false"
                /\ f \notin DOMAIN tFiles'
                /\ f \notin DOMAIN tFiles => tFiles' = tFiles
                /\ UNCHANGED <<mgr, fs, heap, tStrings, ldelim, rdelim, reloading>>
      ]_vars

\* A Remove of an identifier that is not stored (a Template had been stored
\* under it) has returned false, the file map still holding its entry.
C13_Witness ==
    /\ ret.op = "Remove" /\ ret.outcome = "false"
    /\ ret.key \notin DOMAIN tStrings
    /\ \E t \in Objs : ~FileBacked(t)
    /\ DOMAIN tFiles # {}

\* C14: Clear returns true exactly when one of the maps held an entry, and
\* leaves both maps empty.
C14_ClearReportsAndEmpties ==
    [][Clear =>
          /\ ret'.outcome = IF DOMAIN tStrings # {} \/ DOMAIN tFiles # {}
                            THEN "true" ELSE "false"
          /\ tStrings' = EmptyMap /\ tFiles' = EmptyMap
          /\ DOMAIN tStrings' = {} /\ DOMAIN tFiles' = {}
      ]_vars

\* A Clear has returned true and left both maps empty, one string-backed and
\* one file-backed Template having been added.
C14_Witness ==
    /\ ret.op = "Clear" /\ ret.outcome = "true"
    /\ DOMAIN tStrings = {} /\ DOMAIN tFiles = {}
    /\ \E t \in Objs : FileBacked(t)
    /\ \E t \in Objs : ~FileBacked(t)

\* C15: a successful Add (AddFile) under a key that is already stored puts the
\* new Template under it, keeps one entry for the key, and leaves the Template
\* stored before under no key of either map.
C15_LastWriteWins ==
    /\ \A s \in Sources, id \in DOMAIN tStrings :
          LET a == addOn(heap, tStrings, tFiles, s, id, FALSE, ldelim, rdelim)
          IN a.outcome = "ok" =>
                /\ a.t \notin Objs /\ a.tStrings[id] = a.t
                /\ DOMAIN a.tStrings = DOMAIN tStrings
                /\ \A k \in DOMAIN a.tStrings : a.tStrings[k] # tStrings[id]
                /\ \A k \in DOMAIN a.tFiles : a.tFiles[k] # tStrings[id]
    /\ \A f \in DOMAIN tFiles :
          LET a == addFileOn(heap, tStrings, tFiles, f, FALSE, fs, ldelim, rdelim)
          IN a.outcome = "ok" =>
                /\ a.t \notin Objs /\ a.tFiles[f] = a.t
                /\ DOMAIN a.tFiles = DOMAIN tFiles
                /\ \A k \in DOMAIN a.tFiles : a.tFiles[k] # tFiles[f]
                /\ \A k \in DOMAIN a.tStrings : a.tStrings[k] # tFiles[f]
    /\ (ret.op \in {"Add", "AddFile"} /\ ret.outcome = "ok") =>
          /\ ret.t = Len(heap)
          /\ MapGet(IF ret.op = "Add" THEN tStrings ELSE tFiles, ret.key) = ret.t

\* A second AddFile of the same filename has succeeded: the map holds one
\* entry, the second Template, and the first is under no key.
C15_Witness ==
    /\ ret.op = "AddFile" /\ ret.outcome = "ok" /\ ret.t = 2
    /\ FileBacked(1) /\ FileBacked(2) /\ heap[1].fi.filename = heap[2].fi.filename
    /\ DOMAIN tFiles = {ret.key} /\ tFiles[ret.key] = 2
    /\ \A k \in DOMAIN tStrings : tStrings[k] # 1

\* C16: New with a user's table gives the Manager a table that holds every
\* entry of the user's table as passed, every built-in whose name the user's
\* table lacks, and no other name.
C16_UserFormattersWin ==
    (ret.op = "New" /\ ~ret.key.nil) =>
        LET user == ret.key.tab
            eff == mgr.fmap.tab
        IN /\ ~mgr.fmap.nil
           /\ DOMAIN eff = DOMAIN user \cup DOMAIN builtins.tab
           /\ \A k \in DOMAIN user : eff[k] = user[k]
           /\ \A k \in DOMAIN builtins.tab \ DOMAIN user : eff[k] = builtins.tab[k]

\* New has been given a table with its own "e" and "mine": the Manager's table
\* has both as passed, and addSlashes from the built-ins.
C16_Witness ==
    /\ ret.op = "New" /\ ~ret.key.nil
    /\ DOMAIN ret.key.tab = {"e", "mine"}
    /\ mgr.fmap.tab["e"] = "UserFormatter" /\ mgr.fmap.tab["mine"] = "UserFormatter"
    /\ mgr.fmap.tab["addSlashes"] = "AddSlashesFormatter"
    /\ builtins.tab["e"] # "UserFormatter"

\* C17: New with a nil table gives the Manager the built-in table, and a
\* template that names a built-in formatter compiles.
C17_NilTableGivesBuiltins ==
    /\ (ret.op = "New" /\ ret.key.nil) => mgr.fmap = builtins
    /\ (ret.op \in {"Add", "MustAdd"} /\ ret.key \in DOMAIN builtins.tab) =>
           ret.outcome = "ok"

C19_DirKeysAreRelative ==
    LET found == Walked(Join(mgr.baseDir, ret.key), fs)
    IN (ret.op = "MustAddDir" /\ \A p \in found : Parses(fs[p].content)) =>
          /\ ret.outcome = "ok"
          /\ \A p \in found :
                \E k \in DOMAIN tFiles :
                    /\ Clean(k) = k
                    /\ Join(mgr.baseDir, k) = p
                    /\ heap[tFiles[k]].cache = Compiled(fs[p].content)

C21_CapFirstCapitalisesFirstCodePoint ==
    ret.op = "capFirst" =>
        LET b == getBytes(ret.key)
            n == Len(ret.was)
            m == Len(ret.out)
            RuneOf(k) == CASE k = 1 -> b[1]
                           [] k = 2 -> (b[1] - 192) * 64 + (b[2] - 128)
                           [] k = 3 -> (b[1] - 224) * 4096 + (b[2] - 128) * 64 + (b[3] - 128)
            WellFormed(k) == k <= Len(b) /\ EncodeRune(RuneOf(k)) = SubSeq(b, 1, k)
        IN /\ ret.outcome = "ok"
           /\ SubSeq(ret.out, 1, n) = ret.was
           /\ b = <<>> => ret.out = ret.was
           /\ \A k \in 1..3 :
                 WellFormed(k) =>
                    ret.out = (ret.was \o EncodeRune(ToUpper(RuneOf(k))))
                                  \o SubSeq(b, k + 1, Len(b))
           /\ (b # <<>> /\ \A k \in 1..3 : ~WellFormed(k)) =>
                 /\ m >= n + Len(b)
                 /\ SubSeq(ret.out, m - Len(b) + 2, m) = Tail(b)

\* capFirst has formatted a dotless i followed by 'a' (the capital is one byte
\* shorter), and a field that starts with the byte FF.
C21_Witness ==
    /\ ret.op = "capFirst"
    /\ \/ getBytes(ret.key) = <<196, 177, 97>> /\ ret.out = ret.was \o <<73, 97>>
       \/ getBytes(ret.key) = <<255, 97, 191>> /\ SubSeq(ret.out, Len(ret.out) - 1, Len(ret.out)) = <<97, 191>>

\* C22: the registry New returns has the reloading mode off, no string
\* templates, no file templates, and delimiters of one character each; and in
\* every step that turns the reloading mode on, the call is SetReloading.
C22_NewRegistryDefaults ==
    [][/\ ret'.op = "New" =>
             /\ ~reloading'
             /\ tStrings' = EmptyMap /\ tFiles' = EmptyMap
             /\ Len(ldelim') = 1 /\ Len(rdelim') = 1
       /\ (~reloading /\ reloading') => ret'.op = "SetReloading"]_vars

\* New has returned, a file template was loaded and executed, the delimiters
\* were changed, and the reloading mode is still off.
C22_Witness ==
    /\ ret.op = "Execute" /\ ret.outcome = "ok"
    /\ heap[ret.t].fi.present
    /\ tFiles # EmptyMap
    /\ ldelim = <<"[">>
    /\ ~reloading

\* C24: a call of SetDelims changes the delimiters and a call of SetReloading
\* the reloading mode, and nothing else: the string templates, the file
\* templates, every Template (compiled template, recorded modification time)
\* and the other of the two settings are as before the call.
C24_ConfigCallsChangeOnlyTheirField ==
    [][/\ ret'.op = "SetDelims" =>
             /\ heap' = heap /\ tStrings' = tStrings /\ tFiles' = tFiles
             /\ reloading' = reloading
       /\ ret'.op = "SetReloading" =>
             /\ heap' = heap /\ tStrings' = tStrings /\ tFiles' = tFiles
             /\ ldelim' = ldelim /\ rdelim' = rdelim]_vars

\* SetDelims has set the delimiters [ ] with the reloading mode on, while a
\* file template compiled with { } and a string template are stored.
C24_Witness ==
    /\ ret.op = "SetDelims"
    /\ ldelim = <<"[">>
    /\ reloading
    /\ tStrings # EmptyMap
    /\ \E f \in DOMAIN tFiles :
          /\ heap[tFiles[f]].cache # NilCache
          /\ heap[tFiles[f]].cache.ldelim = <<"{">>

\* C23: Add, MustAdd and Remove leave the file templates as they are, AddFile,
\* MustAddFile and RemoveFile leave the string templates as they are; Get
\* returns what the string templates hold under the key and GetFile what the
\* file templates hold under it, and under a key present in both these are
\* two different Templates.
C23_NamespacesAreIndependent ==
    [][/\ ret'.op \in {"Add", "MustAdd", "Remove"} => tFiles' = tFiles
       /\ ret'.op \in {"AddFile", "MustAddFile", "RemoveFile"} => tStrings' = tStrings
       /\ ret'.op = "Get" =>
             ret'.t = (IF ret'.key \in DOMAIN tStrings THEN tStrings[ret'.key] ELSE 0)
       /\ ret'.op = "GetFile" =>
             ret'.t = (IF ret'.key \in DOMAIN tFiles THEN tFiles[ret'.key] ELSE 0)
       /\ \A k \in DOMAIN tStrings' \cap DOMAIN tFiles' :
             /\ tStrings'[k] # tFiles'[k]
             /\ ~heap'[tStrings'[k]].fi.present
             /\ heap'[tFiles'[k]].fi.present]_vars

\* The same key is stored in both maps, and GetFile has returned the file
\* template, which is not the string template Get returns.
C23_Witness ==
    /\ ret.op = "GetFile"
    /\ ret.key \in DOMAIN tStrings \cap DOMAIN tFiles
    /\ ret.t = tFiles[ret.key]
    /\ ret.t # tStrings[ret.key]
    /\ heap[ret.t].fi.present
    /\ ~heap[tStrings[ret.key]].fi.present

\* C25: when New has returned, the table its caller passed has exactly the
\* entries it had before the call, and the package's table of built-in
\* formatters is as it was.
C25_NewLeavesTablesAlone ==
    ret.op = "New" =>
        /\ ret.out.caller = ret.was
        /\ ret.out.builtinFormatters = builtins

\* C26: when Reload is called on a file template whose file cannot be read
\* (it is gone) or is newer and does not parse, then for a template loaded
\* with AddFile the call returns an error, and the call panics only for a
\* template loaded with MustAddFile on such a failure.
C26_ReloadHonoursMustParse ==
    [][\A t \in Objs :
          (Reload(t) /\ FileBacked(t)) =>
              LET failed == \/ ~FileOf(t).exists
                            \/ Newer(t) /\ ~Parses(FileOf(t).content)
              IN /\ (failed /\ ~heap[t].fi.mustParse) => ret'.outcome = "error"
                 /\ ret'.outcome = "panic" => (failed /\ heap[t].fi.mustParse)]_vars

\* C27: a call of Execute, Render or Reload on any Template, stored, removed,
\* cleared away or replaced by a later add, leaves both maps as they were:
\* the same keys with the same Templates.
C27_TemplateCallsLeaveRegistry ==
    [][\A t \in Objs, d \in Data :
          ( \/ Reload(t) \/ Execute(t, d) \/ Render(t, d)
            \/ ExecuteHist(t, d) \/ RenderHist(t, d) )
          => (tStrings' = tStrings /\ tFiles' = tFiles)]_vars

\* C28: when a Reload, or the reload made by Execute or Render with the
\* reloading mode on, has succeeded, then with the files as they are a second
\* Reload and a second Execute with the reloading mode on do not parse the
\* file again and leave every Template (compiled template and recorded
\* modification time) as it is.
C28_ReloadIsIdempotent ==
    [][\A t \in Objs, d \in Data :
          /\ ( /\ Reload(t) \/ (reloading /\ (Execute(t, d) \/ Render(t, d)))
               /\ FileBacked(t)
               /\ ret'.outcome = "ok" )
             => LET r2 == ReloadOn(heap', t, fs', ldelim', rdelim')
                    e2 == ExecuteOn(heap', t, d, fs', ldelim', rdelim', TRUE)
                IN /\ r2.outcome = "ok" /\ ~r2.rc /\ r2.heap = heap'
                   /\ ~e2.rc /\ e2.heap = heap'
          /\ ( /\ reloading /\ (ExecuteHist(t, d) \/ RenderHist(t, d))
               /\ FileBacked(t)
               /\ ret'.outcome = "ok" )
             => LET e2 == ExecuteHistOn(heap', tFiles', t, d, fs', ldelim', rdelim', TRUE)
                IN ~e2.rc /\ e2.heap = heap']_vars

\* C29: in every reachable state, every Template stored in tFiles has a file
\* info whose filename is the key it is stored under and has this Manager as
\* its m, and every Template stored in tStrings has no file info.
C29_ProvenanceMatchesNamespace ==
    /\ \A k \in DOMAIN tFiles :
          /\ heap[tFiles[k]].fi.present
          /\ heap[tFiles[k]].fi.filename = k
          /\ heap[tFiles[k]].m = thisManager
    /\ \A k \in DOMAIN tStrings : ~heap[tStrings[k]].fi.present

\* AddFile has stored a file template while a string template is stored too.
C29_Witness ==
    /\ ret.op = "AddFile" /\ ret.outcome = "ok"
    /\ tFiles[ret.key] = ret.t
    /\ heap[ret.t].fi.filename = ret.key
    /\ \E k \in DOMAIN tStrings : heap[tStrings[k]].fi = NilFi
====
